---- MODULE Spec2Model ----
(***************************************************************************)
(* benchmark.py: the ctypes-based os_listdir() of both backends and the    *)
(* generator os_walk() built on it, walked by a consumer that may remove   *)
(* names from the dirnames lists it has received; benchmark()'s two        *)
(* computations of the size of the tree; and, in SpecRace, another process *)
(* that changes the tree while it is walked.                               *)
(*                                                                         *)
(* A path is the sequence of its components below the walk's top; the top  *)
(* itself is <<>>.  The file system is a map from the real paths below the *)
(* top to the kind of object found there.                                  *)
(***************************************************************************)
EXTENDS Integers, Sequences, FiniteSets, TLC

VARIABLES
    fs,          \* the tree on disk: real path -> kind of object
    platform,    \* sys.platform family: "posix" or "win32"
    order,       \* the order the native enumeration returns entries in
    topdown,     \* os_walk argument
    onerror,     \* os_walk argument: TRUE iff a callback was supplied
    followlinks, \* os_walk argument
    stack,       \* the chain of nested os_walk generator frames, root first
    pc,          \* where the innermost frame stands
    names,       \* os_listdir local: the names collected so far
    pos,         \* how many native entries the open handle has delivered
    exc,         \* the exception in flight, NoExc if none
    handles,     \* native directory handles currently open (by path)
    hlog,        \* native calls made on the handle of the current os_listdir
    errs,        \* native failures the environment has produced so far
    out,         \* tuples delivered to the consumer, as they were yielded
    listed,      \* paths os_listdir was called on, in order
    skipped,     \* paths the for loop met and did not recurse into
    failed,      \* paths whose os_listdir call raised, in order
    errors,      \* the errors passed to onerror, in order
    pruned,      \* paths removed from the newest tuple before resuming
    mutated,     \* TRUE once the consumer has changed any dirnames list
    changes,     \* changes another process has made to the tree so far
    raced,       \* the entries changed after os_listdir had returned them
    native,      \* win32: the last FindFirstFile/FindNextFile call of the
                 \* os_listdir in progress and the error code it left
    sizes,       \* benchmark's dict of tree sizes: <<>> for a missing key
    scanfail     \* where scandir.scandir failed during get_tree_size

vars == <<fs, platform, order, topdown, onerror, followlinks, stack, pc, names,
          pos, exc, handles, hlog, errs, out, listed, skipped, failed, errors,
          pruned, mutated, changes, raced, native, sizes, scanfail>>

\* the tree, the platform and the arguments of the walk
setting == <<fs, platform, order, topdown, onerror, followlinks, changes,
             raced>>

\* the state of benchmark() around the walk
bench == <<sizes, scanfail>>

\* what a step leaves alone unless it says otherwise
config == <<setting, native, bench>>

----------------------------------------------------------------------------
(* Bounds *)

\* deepest chain of nested os_walk frames the model follows
MaxDepth == 3
\* native failures (open, read, close) the environment may produce in a walk
MaxErrors == 1
\* changes another process may make to the tree during a walk
MaxChanges == 1

----------------------------------------------------------------------------
(* Sequences *)

Last(s) == s[Len(s)]
Front(s) == SubSeq(s, 1, Len(s) - 1)
Reverse(s) == [k \in 1..Len(s) |-> s[Len(s) + 1 - k]]
RemoveAt(s, k) == SubSeq(s, 1, k - 1) \o SubSeq(s, k + 1, Len(s))
Range(s) == {s[k] : k \in 1..Len(s)}
IsPrefix(p, q) == Len(p) <= Len(q) /\ SubSeq(q, 1, Len(p)) = p
IsStrictPrefix(p, q) == Len(p) < Len(q) /\ SubSeq(q, 1, Len(p)) = p

----------------------------------------------------------------------------
(* The file system *)

Names == <<"a", "b">>
DotNames == {".", ".."}

\* dir: real directory; file: regular file; ldir: symlink to the top
\* directory (an ancestor, so a cycle); lsib: symlink to the directory "a"
\* beside it; lfile: symlink to a regular file; lbad: dangling symlink;
\* none: no such entry
Kinds == {"none", "file", "dir", "ldir", "lsib", "lfile", "lbad"}
DirLinkKinds == {"ldir", "lsib"}
LinkKinds == DirLinkKinds \cup {"lfile", "lbad"}

FsPaths == {<<n>> : n \in Range(Names)} \cup
           {<<n, m>> : n \in Range(Names), m \in Range(Names)}

Allowed(q) ==
    IF q = <<"a">> THEN {"dir", "file"}
    ELSE IF q = <<"b">> THEN {"dir", "ldir", "lsib", "lfile", "lbad"}
    ELSE IF q = <<"a", "a">> THEN {"none", "dir"}
    ELSE IF q = <<"a", "b">> THEN {"file"}
    ELSE IF q = <<"b", "a">> THEN {"none", "dir", "file"}
    ELSE {"none"}

\* the trees walked: an empty top directory, and every tree the kinds
\* allowed above make
EmptyTree == [q \in FsPaths |-> "none"]
FileSystems ==
    {EmptyTree} \cup
    {f \in [FsPaths -> Kinds] :
        /\ \A q \in FsPaths :
              IF Len(q) = 2 /\ f[<<q[1]>>] # "dir"
              THEN f[q] = "none"
              ELSE f[q] \in Allowed(q)
        /\ f[<<"b">>] = "ldir" => f[<<"a">>] = "file"
        /\ f[<<"b">>] = "lsib" => f[<<"a">>] = "dir"}

KindAt(q) == IF q \in FsPaths THEN fs[q] ELSE "none"

\* the real directory a path leads to, following symlinks; NoDir if it
\* leads to no directory
NoDir == <<"?">>

RECURSIVE ResolveFrom(_, _)
ResolveFrom(r, p) ==
    IF p = <<>> THEN r
    ELSE LET q == Append(r, Head(p))
             k == KindAt(q)
         IN  IF k = "dir" THEN ResolveFrom(q, Tail(p))
             ELSE IF k = "ldir" THEN ResolveFrom(<<>>, Tail(p))
             ELSE IF k = "lsib" /\ KindAt(<<"a">>) = "dir"
                  THEN ResolveFrom(<<"a">>, Tail(p))
             ELSE NoDir

RealDir(p) == ResolveFrom(<<>>, p)

\* lstat of the last component of p
LKind(p) ==
    IF p = <<>> THEN "dir"
    ELSE LET r == RealDir(Front(p))
         IN  IF r = NoDir THEN "none" ELSE KindAt(Append(r, Last(p)))

join(top, name) == Append(top, name)
isdir(p) == RealDir(p) # NoDir
islink(p) == LKind(p) \in LinkKinds

\* what the native enumeration of directory p delivers, in its order; the
\* top of a win32 walk is a drive root, which has no "." and ".." entries
NativeEntries(p) ==
    LET r == RealDir(p)
        Present(n) == KindAt(Append(r, n)) # "none"
        kids == IF r = NoDir THEN <<>> ELSE SelectSeq(Names, Present)
        all == IF r = NoDir \/ (platform = "win32" /\ r = <<>>) THEN kids
               ELSE <<".", "..">> \o kids
    IN  IF order = "rev" THEN Reverse(all) ELSE all

----------------------------------------------------------------------------
(* Errors *)

ERROR_FILE_NOT_FOUND == 2
ERROR_ACCESS_DENIED == 5
ERROR_NO_MORE_FILES == 18

\* the error codes a native call of the win32 backend may leave
ErrorCodes == {ERROR_FILE_NOT_FOUND, ERROR_ACCESS_DENIED, ERROR_NO_MORE_FILES}

\* GetLastError after a call that succeeded; no call made yet
NO_ERROR == 0
NoNative == [call |-> "none", error |-> NO_ERROR]

NoExc == [type |-> "none", code |-> 0, filename |-> <<>>]
posix_error(path) == [type |-> "OSError", code |-> 0, filename |-> path]
win_error(error, path) == [type |-> "WindowsError", code |-> error, filename |-> path]
\* a handler that catches the POSIX error class only
IsOSError_posix(e) == e.type = "OSError"

\* "except OSError": WindowsError is a subclass of OSError
IsOSError(e) == e.type \in {"OSError", "WindowsError"}

MayFail == errs < MaxErrors

----------------------------------------------------------------------------
(* Frames *)

\* a frame that starts with entry lists already filled
Frame_filled(top) == [top |-> top, names |-> Names, dirs |-> Names,
                      nondirs |-> <<>>, i |-> 0, resume |-> "none",
                      snap |-> <<>>, rec |-> <<>>, late |-> FALSE]

\* top, names, dirs, nondirs: the locals of os_walk; i: the position of the
\* list iterator of "for name in dirs"; resume: where the frame continues
\* after its yield ("none" before it).  snap, rec and late are bookkeeping:
\* the list as it was when the consumer resumed after the frame's tuple, the
\* names recursed into, and whether the consumer changed the list after that
\* resume
Frame(top) == [top |-> top, names |-> <<>>, dirs |-> <<>>, nondirs |-> <<>>,
               i |-> 0, resume |-> "none",
               snap |-> <<>>, rec |-> <<>>, late |-> FALSE]

Top == stack[Len(stack)]
SetTop(f) == [stack EXCEPT ![Len(stack)] = f]

\* where control goes when the innermost generator finishes
AfterReturn == IF Len(stack) = 1 THEN "done" ELSE "loop"

----------------------------------------------------------------------------
(* os_listdir, POSIX backend *)

\* an os_listdir that appends every native entry, "." and ".." too
Collect_dots(ns, name) == Append(ns, name)

\* "name not in ('.', '..')": names.append(name)
Collect(ns, name) == IF name \in DotNames THEN ns ELSE Append(ns, name)

\* a failed read that propagates without the close
AfterReadError_skip == "except"

\* the try/finally of os_listdir: a failed read still runs the close
AfterReadError == "close"

\* a finally clause that returns the names and so drops the exception
AfterClose_swallow(e) == "partition"

\* after the close: the pending exception propagates, else "return names"
AfterClose(e) == IF e = NoExc THEN "partition" ELSE "except"

opendir ==
    /\ pc = "listdir"
    /\ platform = "posix"
    /\ listed' = Append(listed, Top.top)
    /\ names' = <<>>
    /\ pos' = 0
    /\ \/ /\ isdir(Top.top)
          /\ handles' = handles \cup {Top.top}
          /\ hlog' = <<"open">>
          /\ exc' = NoExc
          /\ pc' = "read"
          /\ errs' = errs
       \/ /\ MayFail \/ ~isdir(Top.top)
          /\ handles' = handles
          /\ hlog' = <<>>
          /\ exc' = posix_error(Top.top)
          /\ pc' = "except"
          /\ errs' = IF isdir(Top.top) THEN errs + 1 ELSE errs
    /\ failed' = IF pc' = "except" THEN Append(failed, Top.top) ELSE failed
    /\ UNCHANGED <<config, stack, out, skipped, errors, pruned, mutated>>

readdir_r ==
    /\ pc = "read"
    /\ platform = "posix"
    /\ hlog' = Append(hlog, "read")
    /\ \/ /\ MayFail
          /\ exc' = posix_error(Top.top)
          /\ pc' = AfterReadError
          /\ errs' = errs + 1
          /\ UNCHANGED <<names, pos>>
       \/ /\ pos = Len(NativeEntries(Top.top))
          /\ pc' = "close"
          /\ UNCHANGED <<names, pos, exc, errs>>
       \/ /\ pos < Len(NativeEntries(Top.top))
          /\ names' = Collect(names, NativeEntries(Top.top)[pos + 1])
          /\ pos' = pos + 1
          /\ UNCHANGED <<pc, exc, errs>>
    /\ failed' = IF pc' = "except" THEN Append(failed, Top.top) ELSE failed
    /\ UNCHANGED <<config, stack, handles, out, listed, skipped, errors,
                   pruned, mutated>>

closedir ==
    /\ pc = "close"
    /\ platform = "posix"
    /\ hlog' = Append(hlog, "close")
    /\ handles' = handles \ {Top.top}
    /\ \/ /\ MayFail
          /\ exc' = posix_error(Top.top)
          /\ pc' = "except"
          /\ errs' = errs + 1
       \/ /\ pc' = AfterClose(exc)
          /\ UNCHANGED <<exc, errs>>
    /\ failed' = IF pc' = "except" THEN Append(failed, Top.top) ELSE failed
    /\ UNCHANGED <<config, stack, names, pos, out, listed, skipped, errors,
                   pruned, mutated>>

----------------------------------------------------------------------------
(* os_listdir, win32 backend *)

\* an open that raises whatever the error code is
AfterFindFirstError_raise(error) == "except"

\* FindFirstFile returned INVALID_HANDLE_VALUE with this error code
AfterFindFirstError(error) ==
    IF error = ERROR_FILE_NOT_FOUND THEN "partition" ELSE "except"

\* the exception os_listdir is left with when it goes to pc after a native
\* call failed with this error code
Raise(to, error, path) ==
    IF to = "partition" THEN NoExc ELSE win_error(error, path)

\* an end of entries that returns the names without the close
AfterFindNextError_noclose(error) ==
    IF error = ERROR_NO_MORE_FILES THEN "partition" ELSE AfterReadError

\* FindNextFile failed with this error code
AfterFindNextError(error) ==
    IF error = ERROR_NO_MORE_FILES THEN "close" ELSE AfterReadError

FindFirstFile ==
    /\ pc = "listdir"
    /\ platform = "win32"
    /\ listed' = Append(listed, Top.top)
    /\ names' = <<>>
    /\ \/ /\ isdir(Top.top) /\ NativeEntries(Top.top) # <<>>
          /\ handles' = handles \cup {Top.top}
          /\ hlog' = <<"open">>
          /\ pos' = 1
          /\ exc' = NoExc
          /\ pc' = "read"
          /\ errs' = errs
          /\ native' = [call |-> "FindFirstFile", error |-> NO_ERROR]
       \/ \E error \in ErrorCodes :
          /\ IF error = ERROR_FILE_NOT_FOUND
             THEN /\ isdir(Top.top) /\ NativeEntries(Top.top) = <<>>
                  /\ errs' = errs
             ELSE /\ MayFail \/ ~isdir(Top.top)
                  /\ errs' = IF isdir(Top.top) THEN errs + 1 ELSE errs
          /\ handles' = handles
          /\ hlog' = <<>>
          /\ pos' = 0
          /\ pc' = AfterFindFirstError(error)
          /\ exc' = Raise(pc', error, Top.top)
          /\ native' = [call |-> "FindFirstFile", error |-> error]
    /\ failed' = IF pc' = "except" THEN Append(failed, Top.top) ELSE failed
    /\ UNCHANGED <<setting, bench, stack, out, skipped, errors, pruned,
                   mutated>>

FindNextFile ==
    /\ pc = "read"
    /\ platform = "win32"
    /\ names' = Collect(names, NativeEntries(Top.top)[pos])
    /\ hlog' = Append(hlog, "read")
    /\ \/ \E error \in ErrorCodes :
          /\ IF error = ERROR_NO_MORE_FILES
             THEN /\ pos = Len(NativeEntries(Top.top))
                  /\ errs' = errs
             ELSE /\ MayFail
                  /\ errs' = errs + 1
          /\ pc' = AfterFindNextError(error)
          /\ exc' = IF error = ERROR_NO_MORE_FILES THEN exc
                    ELSE win_error(error, Top.top)
          /\ pos' = pos
          /\ native' = [call |-> "FindNextFile", error |-> error]
       \/ /\ pos < Len(NativeEntries(Top.top))
          /\ pos' = pos + 1
          /\ native' = [call |-> "FindNextFile", error |-> NO_ERROR]
          /\ UNCHANGED <<pc, exc, errs>>
    /\ failed' = IF pc' = "except" THEN Append(failed, Top.top) ELSE failed
    /\ UNCHANGED <<setting, bench, stack, handles, out, listed, skipped,
                   errors, pruned, mutated>>

FindClose ==
    /\ pc = "close"
    /\ platform = "win32"
    /\ hlog' = Append(hlog, "close")
    /\ handles' = handles \ {Top.top}
    /\ \/ /\ MayFail
          /\ exc' = win_error(ERROR_ACCESS_DENIED, Top.top)
          /\ pc' = "except"
          /\ errs' = errs + 1
       \/ /\ pc' = AfterClose(exc)
          /\ UNCHANGED <<exc, errs>>
    /\ failed' = IF pc' = "except" THEN Append(failed, Top.top) ELSE failed
    /\ UNCHANGED <<config, stack, names, pos, out, listed, skipped, errors,
                   pruned, mutated>>

----------------------------------------------------------------------------
(* os_walk *)

\* a partition that asks lstat, so that a symlink is never a directory
DirsOf_lstat(top, ns) ==
    LET IsDir(n) == LKind(join(top, n)) = "dir" IN SelectSeq(ns, IsDir)

\* a partition that returns the directories in alphabetical order
DirsOf_sorted(top, ns) ==
    LET IsDir(n) == n \in Range(ns) /\ isdir(join(top, n))
    IN  SelectSeq(Names, IsDir)

\* "for name in names": the partition into dirs and nondirs
DirsOf(top, ns) ==
    LET IsDir(n) == isdir(join(top, n)) IN SelectSeq(ns, IsDir)

\* a partition that drops a name that is no longer there
NonDirsOf_present(top, ns) ==
    LET Other(n) == LKind(join(top, n)) # "none" /\ ~isdir(join(top, n))
    IN  SelectSeq(ns, Other)

NonDirsOf(top, ns) ==
    LET NotDir(n) == ~isdir(join(top, n)) IN SelectSeq(ns, NotDir)

\* a walker that yields before the loop in both modes
YieldsFirst_always == TRUE

\* "if topdown: yield" before the loop, "if not topdown: yield" after it
YieldsFirst == topdown
YieldsLast == ~topdown

\* a loop over a fresh copy of the partition instead of the yielded list
Iterated_copy(f) == DirsOf(f.top, f.names)
\* a loop that stops one name short
LoopHasNext_short(f) == f.i + 1 < Len(f.dirs)
\* a loop that walks the list from its end
LoopName_reversed(f) == f.dirs[Len(f.dirs) - f.i]

\* "for name in dirs": the loop walks the very list that was yielded, and
\* its iterator reads the live list by index
Iterated(f) == f.dirs
LoopHasNext(f) == f.i < Len(Iterated(f))
LoopName(f) == Iterated(f)[f.i + 1]

\* a loop that descends into every name of the list
Recurse_always(new_path) == TRUE

\* "if followlinks or not os.path.islink(new_path)"
Recurse(new_path) == followlinks \/ ~islink(new_path)

Tuple(f) == [path |-> f.top, dirs |-> f.dirs, nondirs |-> f.nondirs]

\* "except OSError as err: if onerror is not None: onerror(err); return"
os_walk_except ==
    /\ pc = "except"
    /\ IF IsOSError(exc)
       THEN /\ errors' = IF onerror THEN Append(errors, exc) ELSE errors
            /\ stack' = Front(stack)
            /\ pc' = AfterReturn
       ELSE /\ pc' = "raised"
            /\ UNCHANGED <<errors, stack>>
    /\ exc' = NoExc
    /\ native' = NoNative
    /\ UNCHANGED <<setting, bench, names, pos, handles, hlog, errs, out,
                   listed, skipped, failed, pruned, mutated>>

os_walk_partition ==
    /\ pc = "partition"
    /\ LET f == [Top EXCEPT !.names = names,
                            !.dirs = DirsOf(Top.top, names),
                            !.nondirs = NonDirsOf(Top.top, names)]
       IN  IF YieldsFirst
           THEN /\ out' = Append(out, Tuple(f))
                /\ stack' = SetTop([f EXCEPT !.resume = "loop"])
                /\ pc' = "suspended"
           ELSE /\ out' = out
                /\ stack' = SetTop(f)
                /\ pc' = "loop"
    /\ names' = <<>>
    /\ native' = NoNative
    /\ UNCHANGED <<setting, bench, pos, exc, handles, hlog, errs, listed,
                   skipped, failed, errors, pruned, mutated>>

os_walk_loop ==
    /\ pc = "loop"
    /\ IF LoopHasNext(Top)
       THEN LET name == LoopName(Top)
                new_path == join(Top.top, name)
                f == [Top EXCEPT !.i = @ + 1]
            IN  IF Recurse(new_path)
                THEN /\ Len(stack) < MaxDepth
                     /\ stack' = Append(SetTop([f EXCEPT !.rec = Append(@, name)]),
                                        Frame(new_path))
                     /\ pc' = "listdir"
                     /\ UNCHANGED <<skipped, out>>
                ELSE /\ stack' = SetTop(f)
                     /\ skipped' = Append(skipped, new_path)
                     /\ UNCHANGED <<pc, out>>
       ELSE /\ IF YieldsLast
               THEN /\ out' = Append(out, Tuple(Top))
                    /\ stack' = SetTop([Top EXCEPT !.resume = "ret"])
                    /\ pc' = "suspended"
               ELSE /\ out' = out
                    /\ stack' = stack
                    /\ pc' = "ret"
            /\ UNCHANGED skipped
    /\ UNCHANGED <<config, names, pos, exc, handles, hlog, errs, listed,
                   failed, errors, pruned, mutated>>

\* the generator is exhausted: its caller's "for x in os_walk(...)" ends
os_walk_return ==
    /\ pc = "ret"
    /\ stack' = Front(stack)
    /\ pc' = AfterReturn
    /\ UNCHANGED <<config, names, pos, exc, handles, hlog, errs, out, listed,
                   skipped, failed, errors, pruned, mutated>>

----------------------------------------------------------------------------
(* The consumer: "for root, dirs, files in os_walk(path)" *)

\* the consumer holds the lists of the tuples it has received
Received(j) == stack[j].resume # "none"

\* request the next tuple
consumer_next ==
    /\ \/ /\ pc = "start"
          /\ stack' = <<Frame(<<>>)>>
          /\ pc' = "listdir"
       \/ /\ pc = "suspended"
          /\ stack' = SetTop([Top EXCEPT !.snap = Top.dirs])
          /\ pc' = Top.resume
    /\ UNCHANGED <<config, names, pos, exc, handles, hlog, errs, out, listed,
                   skipped, failed, errors, pruned, mutated>>

\* remove a name, in place, from a dirnames list received earlier
consumer_prune ==
    /\ pc = "suspended"
    /\ \E j \in 1..Len(stack) : \E k \in 1..Len(stack[j].dirs) :
          /\ Received(j)
          /\ stack' = [stack EXCEPT ![j].dirs = RemoveAt(@, k),
                                    ![j].late = @ \/ j < Len(stack)]
          /\ pruned' = IF j = Len(stack)
                       THEN pruned \cup {join(stack[j].top, stack[j].dirs[k])}
                       ELSE pruned
    /\ mutated' = TRUE
    /\ UNCHANGED <<config, pc, names, pos, exc, handles, hlog, errs, out,
                   listed, skipped, failed, errors>>

\* stop requesting tuples: the generator frames are discarded
consumer_stop ==
    /\ pc = "suspended"
    /\ stack' = <<>>
    /\ pc' = "stopped"
    /\ UNCHANGED <<config, names, pos, exc, handles, hlog, errs, out, listed,
                   skipped, failed, errors, pruned, mutated>>

----------------------------------------------------------------------------
(* benchmark(path, get_size=True): the size of the tree, computed twice *)

\* a value returned, or an OSError raised after size had been added up
Returned(size) == [size |-> size, raised |-> FALSE]
RaisedAt(size) == [size |-> size, raised |-> TRUE]

\* lstat(q).st_size of the object at real path q: files differ in size, a
\* symlink has the size of the path it holds
st_size(q) ==
    IF KindAt(q) = "file" THEN 3 * Len(q) + (IF Last(q) = "b" THEN 1 ELSE 0)
    ELSE IF KindAt(q) \in LinkKinds THEN 1
    ELSE 0

\* os.path.getsize(p): the size of what p leads to, following a symlink; a
\* dangling symlink raises
getsize(p) ==
    IF LKind(p) = "file" THEN Returned(st_size(Append(RealDir(Front(p)), Last(p))))
    ELSE IF LKind(p) = "lfile" THEN Returned(5)
    ELSE RaisedAt(0)

\* "for root, dirs, files in os_walk(path): for filename in files":
\* the fullnames, in the order met
RECURSIVE FullNames(_)
FullNames(ts) ==
    IF ts = <<>> THEN <<>>
    ELSE [k \in 1..Len(Head(ts).nondirs) |->
              join(Head(ts).path, Head(ts).nondirs[k])] \o FullNames(Tail(ts))

\* "size += os.path.getsize(fullname)" over the fullnames ps
RECURSIVE SumGetsize(_, _)
SumGetsize(ps, size) ==
    IF ps = <<>> THEN Returned(size)
    ELSE IF getsize(Head(ps)).raised THEN RaisedAt(size)
    ELSE SumGetsize(Tail(ps), size + getsize(Head(ps)).size)

\* scandir.scandir(p) never fails
NoScanFail == [dir |-> NoDir, after |-> 0]

\* the failures of scandir.scandir: on directory dir, after it has
\* delivered `after` entries
ScanFailures ==
    {NoScanFail} \cup
    {[dir |-> p, after |-> k] :
        p \in {q \in {<<>>} \cup FsPaths : LKind(q) = "dir"}, k \in 0..Len(Names)}

\* scandir.scandir(p): the entries other than "." and "..", in native
\* order, up to the failure if there is one
scandir(p, sf) ==
    LET Real(n) == n \notin DotNames
        all == SelectSeq(NativeEntries(p), Real)
    IN  IF sf.dir = p
        THEN [entries |-> SubSeq(all, 1, IF sf.after < Len(all) THEN sf.after
                                         ELSE Len(all)),
              fails |-> TRUE]
        ELSE [entries |-> all, fails |-> FALSE]

\* entry.is_dir() of the entry at path p: a directory, by the entry itself
is_dir(p) == LKind(p) = "dir"

\* an except clause that lets the OSError through
OnOSError_raise(size) == RaisedAt(size)

\* "except OSError: pass", then "return size"
OnOSError(size) == Returned(size)

\* get_tree_size(path), and its for loop over the entries es with size
\* added up so far
RECURSIVE get_tree_size(_, _), SumEntries(_, _, _, _)
get_tree_size(path, sf) ==
    LET sc == scandir(path, sf)
        body == SumEntries(path, sc.entries, 0, sf)
    IN  IF body.raised \/ sc.fails THEN OnOSError(body.size)
        ELSE Returned(body.size)
SumEntries(path, es, size, sf) ==
    IF es = <<>> THEN Returned(size)
    ELSE LET p == join(path, Head(es))
         IN  IF is_dir(p)
             THEN LET sub == get_tree_size(p, sf)
                  IN  IF sub.raised THEN RaisedAt(size)
                      ELSE SumEntries(path, Tail(es), size + sub.size, sf)
             ELSE SumEntries(path, Tail(es), size + st_size(p), sf)

\* do_os_walk: os_walk(path) with its default arguments, walked to its end
\* by a loop that only reads the tuples; sizes['os_walk'] = size
do_os_walk ==
    /\ pc = "done"
    /\ topdown /\ ~onerror /\ ~followlinks /\ ~mutated
    /\ sizes.os_walk = <<>>
    /\ LET r == SumGetsize(FullNames(out), 0)
       IN  IF r.raised
           THEN pc' = "crashed" /\ sizes' = sizes
           ELSE pc' = pc /\ sizes' = [sizes EXCEPT !.os_walk = <<r.size>>]
    /\ UNCHANGED <<setting, native, scanfail, stack, names, pos, exc, handles,
                   hlog, errs, out, listed, skipped, failed, errors, pruned,
                   mutated>>

\* do_scandir_walk: sizes['scandir_walk'] = get_tree_size(path)
do_scandir_walk ==
    /\ sizes.os_walk # <<>>
    /\ sizes.scandir_walk = <<>>
    /\ pc = "done"
    /\ \E sf \in ScanFailures :
          LET r == get_tree_size(<<>>, sf)
          IN  /\ scanfail' = sf
              /\ IF r.raised
                 THEN pc' = "crashed" /\ sizes' = sizes
                 ELSE pc' = pc /\ sizes' = [sizes EXCEPT !.scandir_walk = <<r.size>>]
    /\ UNCHANGED <<setting, native, stack, names, pos, exc, handles, hlog,
                   errs, out, listed, skipped, failed, errors, pruned, mutated>>

\* lines 166-170: the verdict printed
equality ==
    IF sizes.os_walk = sizes.scandir_walk THEN "equal" ELSE "NOT EQUAL!"

----------------------------------------------------------------------------
(* Another process changing the tree during the walk *)

\* the tree after the entry at real path q has been removed (k = "none")
\* or replaced by a new object of kind k
Changed(q, k) ==
    [x \in FsPaths |-> IF x = q THEN k
                       ELSE IF IsStrictPrefix(q, x) THEN "none"
                       ELSE fs[x]]

\* real path q is a component of the path p of a directory being walked
\* (a symlink to an ancestor is listed again beneath itself)
OnRoute(q, p) ==
    \E k \in 1..Len(p) :
        /\ RealDir(SubSeq(p, 1, k - 1)) # NoDir
        /\ Append(RealDir(SubSeq(p, 1, k - 1)), p[k]) = q

\* between the return of os_listdir (line 77) and the classification of
\* its names (lines 84-88) an entry that was listed is removed, or replaced
\* by a regular file or by a directory; the directory being classified
\* itself stays where it is
fs_change ==
    /\ pc = "partition"
    /\ changes < MaxChanges
    /\ RealDir(Top.top) # NoDir
    /\ \E n \in Range(names), k \in {"none", "file", "dir"} :
          LET q == Append(RealDir(Top.top), n)
              p == join(Top.top, n)
          IN  /\ KindAt(q) # k
              /\ ~OnRoute(q, Top.top)
              /\ fs' = Changed(q, k)
              /\ raced' = {r \in raced : r.path # p} \cup
                              {[path |-> p, now |-> k]}
    /\ changes' = changes + 1
    /\ UNCHANGED <<platform, order, topdown, onerror, followlinks, stack, pc,
                   names, pos, exc, handles, hlog, errs, out, listed, skipped,
                   failed, errors, pruned, mutated, native, bench>>

----------------------------------------------------------------------------
(* Specification *)

Init ==
    /\ fs \in FileSystems
    /\ platform \in {"posix", "win32"}
    /\ order \in {"fwd", "rev"}
    /\ topdown \in BOOLEAN
    /\ onerror \in BOOLEAN
    /\ followlinks \in BOOLEAN
    /\ stack = <<>>
    /\ pc = "start"
    /\ names = <<>>
    /\ pos = 0
    /\ exc = NoExc
    /\ handles = {}
    /\ hlog = <<>>
    /\ errs = 0
    /\ out = <<>>
    /\ listed = <<>>
    /\ skipped = <<>>
    /\ failed = <<>>
    /\ errors = <<>>
    /\ pruned = {}
    /\ mutated = FALSE
    /\ changes = 0
    /\ raced = {}
    /\ native = NoNative
    /\ sizes = [os_walk |-> <<>>, scandir_walk |-> <<>>]
    /\ scanfail = NoScanFail

Walker ==
    \/ opendir
    \/ readdir_r
    \/ closedir
    \/ FindFirstFile
    \/ FindNextFile
    \/ FindClose
    \/ os_walk_except
    \/ os_walk_partition
    \/ os_walk_loop
    \/ os_walk_return

Next ==
    \/ Walker
    \/ consumer_next
    \/ consumer_prune
    \/ consumer_stop
    \/ do_os_walk
    \/ do_scandir_walk

Spec == Init /\ [][Next]_vars

\* the walker is sequential code that runs to its next yield, and the
\* consumer of the termination claim keeps requesting tuples
FairSpec == Spec /\ WF_vars(Walker) /\ WF_vars(consumer_next)

\* the walk of a tree that another process changes meanwhile
NextRace ==
    \/ Next
    \/ fs_change

\* the walks studied with a changing tree are those given no onerror
InitRace == Init /\ ~onerror

SpecRace == InitRace /\ [][NextRace]_vars

----------------------------------------------------------------------------
(* The tree, as the claims speak of it *)

PathsOf(ts) == [k \in 1..Len(ts) |-> ts[k].path]

\* the entries of directory p other than "." and "..", in native order
Listing(p) ==
    LET Real(n) == n \notin DotNames IN SelectSeq(NativeEntries(p), Real)

\* the subdirectories and the other entries of p, in native order
SubDirs(p) ==
    LET IsSub(n) == LKind(join(p, n)) \in {"dir"} \cup DirLinkKinds
    IN  SelectSeq(Listing(p), IsSub)
Others(p) ==
    LET IsOther(n) == LKind(join(p, n)) \in {"file", "lfile", "lbad"}
    IN  SelectSeq(Listing(p), IsOther)

\* the subdirectories of p a walk descends into
Descended(p) ==
    LET Into(n) == followlinks \/ LKind(join(p, n)) = "dir"
    IN  SelectSeq(SubDirs(p), Into)

TupleOf(p) == [path |-> p, dirs |-> SubDirs(p), nondirs |-> Others(p)]

\* depth-first pre-order and post-order of the tree below p, children in
\* the order of the listing, no deeper than the model follows
RECURSIVE PreOrder(_), PreOrderAll(_, _), PostOrder(_), PostOrderAll(_, _)
PreOrder(p) ==
    IF Len(p) >= MaxDepth THEN <<>>
    ELSE <<p>> \o PreOrderAll(p, Descended(p))
PreOrderAll(p, ds) ==
    IF ds = <<>> THEN <<>>
    ELSE PreOrder(join(p, Head(ds))) \o PreOrderAll(p, Tail(ds))
PostOrder(p) ==
    IF Len(p) >= MaxDepth THEN <<>>
    ELSE PostOrderAll(p, Descended(p)) \o <<p>>
PostOrderAll(p, ds) ==
    IF ds = <<>> THEN <<>>
    ELSE PostOrder(join(p, Head(ds))) \o PostOrderAll(p, Tail(ds))

SymlinkFree == \A q \in FsPaths : fs[q] \notin LinkKinds

\* r is s with some elements left out
RECURSIVE IsSubSeq(_, _)
IsSubSeq(r, s) ==
    IF r = <<>> THEN TRUE
    ELSE IF s = <<>> THEN FALSE
    ELSE IF Head(r) = Head(s) THEN IsSubSeq(Tail(r), Tail(s))
    ELSE IsSubSeq(r, Tail(s))

----------------------------------------------------------------------------
(* Claims *)

\* C1: top-down, on a symlink-free tree whose directories can all be listed
\* and with a consumer that changes no dirnames list, the tuples yielded so
\* far are the first tuples of the depth-first pre-order of the tree (one
\* tuple per directory, a directory before its descendants, children in
\* dirnames order), and a finished walk has yielded all of them.
C1_TopDownPreOrder ==
    (topdown /\ SymlinkFree /\ errs = 0 /\ ~mutated) =>
        LET want == PreOrder(<<>>)
        IN  /\ Len(out) <= Len(want)
            /\ \A k \in 1..Len(out) : out[k] = TupleOf(want[k])
            /\ pc = "done" => Len(out) = Len(want)

C1_Witness ==
    /\ pc = "done" /\ topdown /\ SymlinkFree /\ errs = 0 /\ ~mutated
    /\ PathsOf(out) = <<<<>>, <<"a">>, <<"a", "a">>, <<"b">>, <<"b", "a">>>>

\* C2: bottom-up, no tuple is ever yielded for a descendant of a directory
\* whose tuple has already been yielded, so a directory's tuple is the last
\* of its subtree; a finished walk has yielded the top's tuple last, unless
\* the top could not be listed, and then it has yielded nothing.
C2_BottomUpLast ==
    (~topdown) =>
        /\ \A j, k \in 1..Len(out) :
              j < k => ~IsPrefix(out[j].path, out[k].path)
        /\ pc = "done" =>
              IF <<>> \in Range(failed) THEN out = <<>>
              ELSE out # <<>> /\ Last(out).path = <<>>

C2_Witness ==
    /\ pc = "done" /\ ~topdown /\ Len(out) >= 4
    /\ \E k \in 1..Len(out) : Len(out[k].path) = 2

\* C3: top-down, a subdirectory whose name the consumer removed from the
\* newest tuple's dirnames before requesting the next tuple is never passed
\* to os_listdir and never yielded, and neither is anything beneath it.
C3_PruneHonoured ==
    topdown =>
        \A q \in pruned :
            /\ \A k \in 1..Len(listed) : ~IsPrefix(q, listed[k])
            /\ \A k \in 1..Len(out) : ~IsPrefix(q, out[k].path)

C3_Witness ==
    /\ pc = "done" /\ topdown /\ errs = 0
    /\ <<"a">> \in pruned /\ fs[<<"a", "a">>] = "dir"
    /\ Len(out) >= 2

\* the names of list s the walker descends into, below directory top
Recursable(top, s) ==
    LET Into(n) == Recurse(join(top, n)) IN SelectSeq(s, Into)

C5_BottomUpPruneIgnored ==
    (~topdown /\ pc = "done" /\ errs = 0) =>
        /\ PathsOf(out) = PostOrder(<<>>)
        /\ \A k \in 1..Len(out) : out[k] = TupleOf(out[k].path)

C5_Witness ==
    /\ ~topdown /\ pc = "done" /\ errs = 0 /\ mutated
    /\ pruned # {} /\ Len(out) >= 4

\* p lies at or beneath a directory whose listing failed
UnderFailed(p) == \E k \in 1..Len(failed) : IsPrefix(failed[k], p)

C7_SymlinkPlacement ==
    /\ out # <<>> =>
          /\ Last(out).dirs = SubDirs(Last(out).path)
          /\ Last(out).nondirs = Others(Last(out).path)
    /\ skipped # <<>> =>
          LKind(Last(skipped)) \in DirLinkKinds /\ ~followlinks
    /\ listed # <<>> =>
          \/ LKind(Last(listed)) = "dir"
          \/ LKind(Last(listed)) \in DirLinkKinds /\ followlinks

C7_Witness ==
    /\ followlinks /\ fs[<<"b">>] = "lsib" /\ pc = "done"
    /\ \E k \in 1..Len(out) : out[k].path = <<"b">> /\ out[k].dirs = <<"a">>

\* C8: with followlinks false, a walk whose consumer keeps requesting
\* tuples (or abandons it) comes to its end, whatever symlinks the tree
\* holds; no symlink is ever passed to os_listdir and no path is yielded
\* twice.
C8_NoFollowTerminates ==
    (~followlinks) =>
        /\ <>(pc \in {"done", "stopped"})
        /\ [](/\ \A k \in 1..Len(listed) : ~islink(listed[k])
              /\ \A j, k \in 1..Len(out) :
                    out[j].path = out[k].path => j = k
              /\ \A j, k \in 1..Len(listed) : listed[j] = listed[k] => j = k)

C8_Witness ==
    /\ ~followlinks /\ pc = "done" /\ fs[<<"b">>] = "ldir"
    /\ skipped = <<<<"b">>>> /\ PathsOf(out) = <<<<>>>>

C10_NoHandleAcrossYield ==
    /\ Cardinality(handles) <= 1
    /\ pc \in {"start", "suspended", "done", "stopped", "raised"} => handles = {}

C10_Witness ==
    /\ pc = "stopped" /\ handles = {} /\ Len(listed) >= 3 /\ errs = 1

\* C11: when os_listdir returns (the directory was opened, read to its end
\* and closed without error), on either backend, the list it returns holds
\* exactly the names of the native enumeration other than "." and "..", in
\* the native order: none dropped, none added, none twice; on Windows the
\* entry the open call itself returned is among them.
C11_ListdirNames ==
    pc = "partition" =>
        /\ names = Listing(Top.top)
        /\ \A j, k \in 1..Len(names) : names[j] = names[k] => j = k
        /\ \A k \in 1..Len(names) : names[k] \notin DotNames
        /\ (platform = "win32" /\ NativeEntries(Top.top) # <<>>
               /\ NativeEntries(Top.top)[1] \notin DotNames)
              => (names # <<>> /\ names[1] = NativeEntries(Top.top)[1])

C11_Witness ==
    /\ pc = "partition" /\ platform = "win32" /\ Len(names) = 2
    /\ NativeEntries(Top.top)[1] = names[1]
    /\ Len(NativeEntries(Top.top)) = 4

\* the directories whose entry lists a generator frame of the walk holds
HeldDirs ==
    {stack[j].top : j \in {k \in 1..Len(stack) :
        stack[k].dirs # <<>> \/ stack[k].nondirs # <<>>}}

\* C12, as stated: at every point of a walk the entry lists the walker
\* holds belong to at most one directory, whatever the depth of the
\* directory being visited.
C12_OneDirectoryBuffered == Cardinality(HeldDirs) <= 1

\* C12, amended: the walker holds the entry lists of one directory per
\* level of nesting and no more: its frames are, outermost first, the
\* directories on the path from the top to the directory being visited,
\* each frame holds only names of its own directory's listing, and so the
\* lists held belong to at most depth + 1 directories; when the walk has
\* ended nothing is held.
C12_OneDirectoryPerLevel ==
    /\ \A j \in 1..Len(stack) :
          /\ Len(stack[j].top) = j - 1
          /\ IsPrefix(stack[j].top, Top.top)
          /\ Range(stack[j].dirs) \cup Range(stack[j].nondirs)
                \subseteq Range(stack[j].names)
          /\ stack[j].names \in {<<>>, Listing(stack[j].top)}
    /\ stack # <<>> => Cardinality(HeldDirs) <= Len(Top.top) + 1
    /\ pc \in {"done", "stopped"} => HeldDirs = {}

C12_Witness ==
    /\ Len(stack) = 3 /\ pc = "suspended"
    /\ Cardinality(HeldDirs) = 2
    /\ stack[1].nondirs # <<>> /\ stack[2].dirs # <<>>

\* the frames whose directory has been classified
Partitioned ==
    {j \in 1..Len(stack) :
        j < Len(stack) \/ pc \in {"suspended", "loop", "ret"}}

\* the walk goes on under changes to the tree: it never raises, the tuple
\* it has just yielded classifies every name of its directory's listing
\* exactly once, and a finished walk has yielded a tuple for every
\* directory whose listing did not fail
WalkGoesOn ==
    /\ pc # "raised"
    /\ pc = "suspended" =>
          /\ Last(out).path = Top.top
          /\ Range(Last(out).dirs) \cap Range(Last(out).nondirs) = {}
          /\ Range(Last(out).dirs) \cup Range(Last(out).nondirs)
                = Range(Top.names)
    /\ pc = "done" =>
          \A k \in 1..Len(listed) :
              listed[k] \in Range(failed) \/ listed[k] \in Range(PathsOf(out))

\* C13, as stated: an entry removed or replaced between its enumeration by
\* os_listdir and its classification is placed in filenames, and the walk
\* neither raises nor stops.
C13_RacedIsFile ==
    /\ \A r \in raced, j \in Partitioned :
          stack[j].top = Front(r.path)
            => Last(r.path) \in Range(stack[j].nondirs)
    /\ WalkGoesOn

\* C13, amended: an entry removed, or replaced by something that is not a
\* directory, between its enumeration and its classification is placed in
\* filenames; an entry replaced by a directory is placed in dirnames; in
\* both cases the walk neither raises nor stops, every other name of the
\* listing is classified and the directory's tuple is yielded.
C13_RacedByKind ==
    /\ \A r \in raced, j \in Partitioned :
          stack[j].top = Front(r.path)
            => (Last(r.path) \in Range(stack[j].nondirs) <=> r.now # "dir")
    /\ pc = "suspended" =>
          \A r \in raced :
              Front(r.path) = Top.top
                => (Last(r.path) \in Range(Last(out).dirs) <=> r.now = "dir")
    /\ WalkGoesOn

C13_Witness ==
    /\ pc = "suspended" /\ topdown
    /\ raced = {[path |-> <<"a">>, now |-> "none"]}
    /\ Last(out).path = <<>>
    /\ Last(out).nondirs = <<"a">> /\ Last(out).dirs = <<"b">>

\* the tree without any order: the names of the subdirectories and of the
\* other entries of p, and the directories a walk from p reaches
SubDirSet(p) ==
    {n \in Range(Names) : LKind(join(p, n)) \in {"dir"} \cup DirLinkKinds}
OtherSet(p) ==
    {n \in Range(Names) : LKind(join(p, n)) \in {"file", "lfile", "lbad"}}

RECURSIVE Reachable(_)
Reachable(p) ==
    IF Len(p) >= MaxDepth THEN {}
    ELSE {p} \cup
         UNION {Reachable(join(p, n)) :
                  n \in {m \in SubDirSet(p) :
                            followlinks \/ LKind(join(p, m)) = "dir"}}

\* C14: a finished walk of a static tree, with no listing failure and no
\* pruning, has yielded exactly one tuple for each directory reachable from
\* the top, and the set of names in its dirnames and in its filenames is
\* the set of subdirectories and of other entries of that directory;
\* neither depends on the order of the native enumeration, so walks
\* repeated with the same arguments agree on them whatever that order is
\* on each run.
C14_SameSetsAnyOrder ==
    (pc = "done" /\ errs = 0 /\ ~(topdown /\ mutated)) =>
        /\ {[path |-> out[k].path, dirs |-> Range(out[k].dirs),
              nondirs |-> Range(out[k].nondirs)] : k \in 1..Len(out)}
             = {[path |-> p, dirs |-> SubDirSet(p), nondirs |-> OtherSet(p)] :
                  p \in Reachable(<<>>)}
        /\ Range(listed) = Reachable(<<>>)
        /\ Len(out) = Cardinality(Reachable(<<>>))

C14_Witness ==
    /\ pc = "done" /\ errs = 0 /\ ~mutated /\ order = "rev"
    /\ Len(out) = 3 /\ Range(Last(out).dirs) = {"a", "b"}
    /\ Last(out).dirs = <<"b", "a">>

\* C15: on the Windows backend, right after a native call has failed:
\* FindFirstFile with ERROR_FILE_NOT_FOUND makes os_listdir return an empty
\* list, without raising and with no handle to close, and the walk yields
\* that directory's tuple with both lists empty; FindNextFile with
\* ERROR_NO_MORE_FILES ends the loop with no exception pending and with
\* every name delivered collected, which is what os_listdir then returns;
\* any other error code from either call is raised as a WindowsError
\* carrying that code and the directory's path.
C15_WindowsErrorCodes ==
    platform = "win32" =>
      /\ (native.call = "FindFirstFile" /\ native.error # NO_ERROR) =>
            IF native.error = ERROR_FILE_NOT_FOUND
            THEN /\ pc = "partition" /\ names = <<>> /\ exc = NoExc
                 /\ hlog = <<>> /\ Top.top \notin Range(failed)
            ELSE /\ pc = "except"
                 /\ exc = [type |-> "WindowsError", code |-> native.error,
                           filename |-> Top.top]
      /\ (native.call = "FindNextFile" /\ native.error # NO_ERROR) =>
            IF native.error = ERROR_NO_MORE_FILES
            THEN /\ pc \in {"close", "partition", "except"}
                 /\ pc = "close" => exc = NoExc
                 /\ pc = "partition" => exc = NoExc
                 /\ pc = "except" => Last(hlog) = "close"
                 /\ names = Listing(Top.top)
            ELSE /\ pc \in {"close", "except"}
                 /\ exc.type = "WindowsError" /\ exc.filename = Top.top
                 /\ pc = "close" => exc.code = native.error
      /\ (pc = "done" /\ errs = 0 /\ NativeEntries(<<>>) = <<>>) =>
            /\ out = <<[path |-> <<>>, dirs |-> <<>>, nondirs |-> <<>>]>>
            /\ failed = <<>> /\ errors = <<>>

C15_Witness ==
    /\ platform = "win32" /\ pc = "done" /\ errs = 0
    /\ listed = <<<<>>>> /\ hlog = <<>>
    /\ out = <<[path |-> <<>>, dirs |-> <<>>, nondirs |-> <<>>]>>

\* C16: in the tuple the walker has just yielded, dirnames and filenames
\* partition the names os_listdir returned for that directory: every
\* listed name is in exactly one of the two lists, no other name is in
\* either, and each list holds its names in the order of the listing,
\* which is the order of the native enumeration.
C16_Partition ==
    pc = "suspended" =>
        LET t == Last(out)
            ns == Top.names
        IN  /\ t.path = Top.top
            /\ ns = Listing(Top.top)
            /\ Range(t.dirs) \cup Range(t.nondirs) = Range(ns)
            /\ Range(t.dirs) \cap Range(t.nondirs) = {}
            /\ Len(t.dirs) + Len(t.nondirs) = Len(ns)
            /\ IsSubSeq(t.dirs, ns)
            /\ IsSubSeq(t.nondirs, ns)
            /\ t.nondirs = Top.nondirs

C16_Witness ==
    /\ pc = "suspended" /\ order = "rev"
    /\ Top.top = <<"a">> /\ Top.names = <<"b", "a">>
    /\ Last(out).dirs = <<"a">> /\ Last(out).nondirs = <<"b">>

\* C17: a listing is all or nothing.  os_listdir returns a list only when
\* no native call has failed, and then the complete one; when a read fails
\* after names were collected, or the close fails after all were, it
\* raises with the handle closed and the walker's frame has received no
\* list; os_walk then treats the directory as it treats one that could not
\* be opened: onerror, when supplied, is called for it, no tuple is yielded
\* for it and none of its entries is visited.
C17_AllOrNothing ==
    /\ pc = "partition" =>
          /\ exc = NoExc
          /\ hlog # <<>> =>
                (Last(hlog) = "close" /\ names = Listing(Top.top))
    /\ pc = "except" =>
          /\ IsOSError(exc) /\ exc.filename = Top.top
          /\ handles = {}
          /\ Last(failed) = Top.top
          /\ Top.names = <<>> /\ Top.dirs = <<>> /\ Top.nondirs = <<>>
          /\ Top.rec = <<>> /\ Top.resume = "none"
    /\ \A k \in 1..Len(failed) :
          /\ failed[k] \notin Range(PathsOf(out))
          /\ \A n \in Range(Names) : join(failed[k], n) \notin Range(listed)
    /\ pc # "except" => Len(errors) = (IF onerror THEN Len(failed) ELSE 0)

C17_Witness ==
    /\ pc = "done" /\ onerror
    /\ failed = <<<<>>>> /\ listed = <<<<>>>> /\ out = <<>>
    /\ Len(errors) = 1
    /\ Len(hlog) >= 3 /\ hlog[Len(hlog) - 1] = "read"
    /\ names # <<>> /\ SubDirs(<<>>) # <<>>

\* the size of the tree without any order: the sum of the sizes of the
\* objects other than directories, leaving out what lies after the point
\* where the scan of a directory failed
RECURSIVE SumOf(_)
SumOf(S) ==
    IF S = {} THEN 0
    ELSE LET q == CHOOSE x \in S : TRUE IN st_size(q) + SumOf(S \ {q})

NotScanned(q, sf) ==
    /\ sf # NoScanFail
    /\ IsStrictPrefix(sf.dir, q)
    /\ \A k \in 1..Len(Listing(sf.dir)) :
          Listing(sf.dir)[k] = q[Len(sf.dir) + 1] => k > sf.after

SizeScanned(sf) ==
    SumOf({q \in FsPaths : KindAt(q) \notin {"none", "dir"} /\ ~NotScanned(q, sf)})

\* C18: get_tree_size never raises: the benchmark can only die in
\* do_os_walk's getsize, and not on a symlink-free tree; what get_tree_size
\* returns is the size of everything it had scanned, the whole tree when no
\* scan failed and the part scanned before the failure otherwise; and on a
\* static symlink-free tree, with every directory listed by os_walk and
\* scanned by scandir without failure, the sum do_os_walk makes over the
\* filenames of the top-down walk's tuples is that same number, so the
\* benchmark's verdict is 'equal'.
C18_TreeSizes ==
    /\ pc = "crashed" => sizes.os_walk = <<>>
    /\ SymlinkFree => pc # "crashed"
    /\ sizes.scandir_walk # <<>> =>
          sizes.scandir_walk = <<SizeScanned(scanfail)>>
    /\ (sizes.scandir_walk # <<>> /\ SymlinkFree /\ errs = 0
          /\ scanfail = NoScanFail) =>
          /\ sizes.os_walk = sizes.scandir_walk
          /\ equality = "equal"

C18_Witness ==
    /\ SymlinkFree /\ errs = 0 /\ scanfail = NoScanFail
    /\ sizes.os_walk = <<13>> /\ sizes.scandir_walk = <<13>>
    /\ equality = "equal" /\ Len(out) = 3

====
